---- MODULE Spec2Model ----
(***************************************************************************)
(* Model of gbj_statfilter/statfilter.py: the value filter, the            *)
(* exponential smoothing engine and the running-statistics engine.         *)
(*                                                                         *)
(* Python values are encoded as tuples so that values of different types   *)
(* never have the same length:                                             *)
(*   None                 <<>>                                             *)
(*   a number n/d         <<n, d>>  (d > 0, lowest terms)                  *)
(*   a non-numeric str    <<"str">> (float()/int() raise ValueError)       *)
(*   a non-numeric object <<"obj">> (float()/int() raise TypeError)        *)
(* The samples and factors used are dyadic rationals, for which Python's   *)
(* float arithmetic is exact.                                              *)
(***************************************************************************)
EXTENDS Integers, Sequences, FiniteSets, TLC

VARIABLES kind, buffer, filter, factor, def_stat,
          lastOp, ret, err, hist, tracked, nacc, factor_in, trip

vars == <<kind, buffer, filter, factor, def_stat,
          lastOp, ret, err, hist, tracked, nacc, factor_in, trip>>

-----------------------------------------------------------------------------
(* Bounds of the model *)

\* Accepted samples between two reset() calls, in Spec.
MaxAccepted == 4

\* Accepted samples between two reset() calls, in SpecStat.
MaxStat == 4

\* Accepted samples between two reset() calls, in SpecMedian.
MaxMedian == 5

\* Accepted samples between two reset() calls, in SpecWindow.
MaxWindow == 6

-----------------------------------------------------------------------------
(* Numbers *)

None == <<>>

IsNum(x) == Len(x) = 2

Abs(n) == IF n < 0 THEN -n ELSE n

RECURSIVE GCD(_, _)
GCD(a, b) == IF b = 0 THEN a ELSE GCD(b, a % b)

Rat(n, d) ==
    LET g == GCD(Abs(n), Abs(d))
        s == IF d < 0 THEN -1 ELSE 1
    IN  <<(s * n) \div g, (s * d) \div g>>

Num(n) == <<n, 1>>

RAdd(x, y) == Rat(x[1] * y[2] + y[1] * x[2], x[2] * y[2])
RSub(x, y) == Rat(x[1] * y[2] - y[1] * x[2], x[2] * y[2])
RMul(x, y) == Rat(x[1] * y[1], x[2] * y[2])
RDivInt(x, n) == Rat(x[1], x[2] * n)
RAbs(x) == <<Abs(x[1]), x[2]>>
RLt(x, y) == x[1] * y[2] < y[1] * x[2]
RGt(x, y) == RLt(y, x)
RMin(x, y) == IF RLt(y, x) THEN y ELSE x
RMax(x, y) == IF RLt(x, y) THEN y ELSE x

\* Python truthiness of an argument: None and zero are falsy.
Truthy(x) == x # None /\ (IsNum(x) => x[1] # 0)

\* x or default
OrDefault(x, default) == IF Truthy(x) THEN x ELSE default

\* float(x): the exception raised, "" if none.
ConvError(x) ==
    IF x = None THEN "TypeError"
    ELSE IF IsNum(x) THEN ""
    ELSE IF x[1] = "str" THEN "ValueError" ELSE "TypeError"

\* int(x) of a number: truncation towards zero.
Trunc(x) == IF x[1] < 0 THEN -((-x[1]) \div x[2]) ELSE x[1] \div x[2]

-----------------------------------------------------------------------------
(* ValueFilter *)

\* float(value), None when the conversion raises TypeError or ValueError.
Bound(value) == IF ConvError(value) = "" THEN value ELSE None

\* ValueFilter(value_max, value_min) as <<value_max, value_min>>.
ValueFilter(vmax, vmin) == <<Bound(vmax), Bound(vmin)>>

value_max(f) == f[1]
value_min(f) == f[2]

\* Mutant of FilterValue: a value equal to a bound is rejected.
FilterValueStrict(f, value) ==
    IF value = None THEN None
    ELSE IF value_max(f) # None /\ ~RLt(value, value_max(f)) THEN None
    ELSE IF value_min(f) # None /\ ~RGt(value, value_min(f)) THEN None
    ELSE value

FilterValue(f, value) ==
    IF value = None THEN None
    ELSE IF value_max(f) # None /\ RGt(value, value_max(f)) THEN None
    ELSE IF value_min(f) # None /\ RLt(value, value_min(f)) THEN None
    ELSE value

-----------------------------------------------------------------------------
(* StatFilter *)

\* self._filter is None (no filter object) or a ValueFilter.
NoFilter == <<>>

Readings(buf) == Cardinality({i \in DOMAIN buf : buf[i] # None})

\* StatFilter.result: the value after the optional filter.
BaseResult(flt, value) ==
    IF flt # NoFilter THEN FilterValue(flt, value) ELSE value

-----------------------------------------------------------------------------
(* Exponential *)

FACTOR_DEF == <<1, 2>>
FACTOR_MIN == <<0, 1>>
FACTOR_MAX == <<1, 1>>

\* Exponential.factor setter: the new factor, and the exception it raises.
FactorSet(cur, value) ==
    LET arg == OrDefault(value, FACTOR_DEF)
        e   == ConvError(arg)
        raw == IF e = "" THEN RAbs(arg) ELSE FACTOR_DEF
    IN  IF e = "ValueError"
        THEN [factor |-> cur, err |-> e]
        ELSE [factor |-> RMax(RMin(RAbs(raw), FACTOR_MAX), FACTOR_MIN),
              err |-> ""]

\* Mutant of ExpReset: the stored value is kept.
ExpResetKeeps(buf) == buf

\* Exponential.reset
ExpReset(buf) == [buf EXCEPT ![1] = None]

\* Mutant of ExpResult: without an accepted value None is returned.
ExpResultNoneOut(buf, flt, fac, value) ==
    LET v == BaseResult(flt, value)
        b == IF v = None THEN buf
             ELSE IF Readings(buf) # 0
                  THEN [buf EXCEPT ![1] = RAdd(buf[1], RMul(fac, RSub(v, buf[1])))]
                  ELSE [buf EXCEPT ![1] = v]
    IN  [buffer |-> b, ret |-> IF v = None THEN None ELSE b[1]]

\* Mutant of ExpResult: the increment is assigned, not added.
ExpResultAssigned(buf, flt, fac, value) ==
    LET v == BaseResult(flt, value)
        b == IF v = None THEN buf
             ELSE IF Readings(buf) # 0
                  THEN [buf EXCEPT ![1] = RMul(fac, RSub(v, buf[1]))]
                  ELSE [buf EXCEPT ![1] = v]
    IN  [buffer |-> b, ret |-> b[1]]

\* Exponential.result: the buffer after the call and the returned value.
ExpResult(buf, flt, fac, value) ==
    LET v == BaseResult(flt, value)
        b == IF v = None THEN buf
             ELSE IF Readings(buf) # 0
                  THEN [buf EXCEPT ![1] = RAdd(buf[1], RMul(fac, RSub(v, buf[1])))]
                  ELSE [buf EXCEPT ![1] = v]
    IN  [buffer |-> b, ret |-> b[1]]

-----------------------------------------------------------------------------
(* Running *)

BUFFER_LEN_DEF == 5

\* Strings are sequences of characters.
AVG == <<"A", "V", "G">>
MED == <<"M", "E", "D">>
MAX == <<"M", "A", "X">>
MIN == <<"M", "I", "N">>
STAT_TYPE == <<AVG, MED, MAX, MIN>>

LowerAlpha == <<"a","b","c","d","e","f","g","h","i","j","k","l","m",
                "n","o","p","q","r","s","t","u","v","w","x","y","z">>
UpperAlpha == <<"A","B","C","D","E","F","G","H","I","J","K","L","M",
                "N","O","P","Q","R","S","T","U","V","W","X","Y","Z">>

MapChar(c, from, to) ==
    IF \E i \in DOMAIN from : from[i] = c
    THEN to[CHOOSE i \in DOMAIN from : from[i] = c]
    ELSE c

\* str.upper() and str.lower()
Upper(s) == [i \in DOMAIN s |-> MapChar(s[i], LowerAlpha, UpperAlpha)]
Lower(s) == [i \in DOMAIN s |-> MapChar(s[i], UpperAlpha, LowerAlpha)]

\* str(x) of a string or of None
Str(x) == IF x = None THEN <<"N", "o", "n", "e">> ELSE x

\* n | 1 of a non-negative integer
Or1(n) == IF n % 2 = 0 THEN n + 1 ELSE n

\* [None] * n
Nones(n) == [i \in 1..n |-> None]

\* list.pop(i) for a valid 0-based index i
Pop(buf, i) == [j \in 1..(Len(buf) - 1) |-> IF j <= i THEN buf[j] ELSE buf[j + 1]]

\* for i in range(count): buf.pop(i), started at index i; pop raises
\* IndexError when i is not an index of the list as it is by then.
RECURSIVE PopLoop(_, _, _)
PopLoop(buf, i, count) ==
    IF i >= count THEN [buffer |-> buf, err |-> ""]
    ELSE IF i >= Len(buf) THEN [buffer |-> buf, err |-> "IndexError"]
    ELSE PopLoop(Pop(buf, i), i + 1, count)

\* Mutant of BufferLenTarget: zero kept as given, the length clamped to 15.
BufferLenTargetClamped(value) ==
    LET arg == IF value = None THEN Num(BUFFER_LEN_DEF) ELSE value
        e   == ConvError(arg)
        n   == Or1(Abs(Trunc(arg)))
    IN  [len |-> IF e = "" THEN (IF n > 15 THEN 15 ELSE n) ELSE BUFFER_LEN_DEF,
         err |-> e]

\* The local buffer_len of the buffer_len setter: the length asked for,
\* and the exception int() raises.
BufferLenTarget(value) ==
    LET arg == OrDefault(value, Num(BUFFER_LEN_DEF))
        e   == ConvError(arg)
    IN  [len |-> IF e = "" THEN Or1(Abs(Trunc(arg))) ELSE BUFFER_LEN_DEF,
         err |-> e]

\* Mutant of Resize: the shrinking loop runs once too often.
ResizeOnceMore(buf, buffer_len) ==
    IF Len(buf) < buffer_len
    THEN [buffer |-> buf \o Nones(buffer_len - Len(buf)), err |-> ""]
    ELSE IF Len(buf) > buffer_len
    THEN PopLoop(buf, 0, Len(buf) - buffer_len + 1)
    ELSE [buffer |-> buf, err |-> ""]

\* Mutant of Resize: the empty slots are inserted at the head.
ResizeAtHead(buf, buffer_len) ==
    IF Len(buf) < buffer_len
    THEN [buffer |-> Nones(buffer_len - Len(buf)) \o buf, err |-> ""]
    ELSE IF Len(buf) > buffer_len
    THEN PopLoop(buf, 0, Len(buf) - buffer_len)
    ELSE [buffer |-> buf, err |-> ""]

\* The buffer_len setter: extend or pop to the length asked for.
Resize(buf, buffer_len) ==
    IF Len(buf) < buffer_len
    THEN [buffer |-> buf \o Nones(buffer_len - Len(buf)), err |-> ""]
    ELSE IF Len(buf) > buffer_len
    THEN PopLoop(buf, 0, Len(buf) - buffer_len)
    ELSE [buffer |-> buf, err |-> ""]

\* Running.buffer_len setter: TypeError is caught and the setter returns,
\* ValueError is raised to the caller.
BufferLenSet(buf, value) ==
    LET t == BufferLenTarget(value)
    IN  IF t.err = "TypeError" THEN [buffer |-> buf, err |-> ""]
        ELSE IF t.err = "ValueError" THEN [buffer |-> buf, err |-> t.err]
        ELSE Resize(buf, t.len)

\* Mutant of StatTypeSet: an unknown type keeps the current one.
StatTypeKeep(cur, arg) ==
    LET s == Upper(Str(arg))
    IN  IF \E i \in DOMAIN STAT_TYPE : STAT_TYPE[i] = s THEN s ELSE cur

\* Running.stat_type setter
StatTypeSet(cur, arg) ==
    LET s == Upper(Str(arg))
    IN  IF \E i \in DOMAIN STAT_TYPE : STAT_TYPE[i] = s THEN s ELSE STAT_TYPE[1]

\* Mutant of Shift: the loop runs upwards, for i in range(1, buffer_len).
ShiftUpwards(buf) == [i \in DOMAIN buf |-> buf[1]]

\* The shift of _register: for i in range(buffer_len - 1, 0, -1)
Shift(buf) == [i \in DOMAIN buf |-> IF i = 1 THEN buf[1] ELSE buf[i - 1]]

\* Mutant of Register: the raw value is stored whatever the filter says.
RegisterUnfiltered(buf, flt, value) ==
    LET v == BaseResult(flt, value)
    IN  IF value = None THEN [buffer |-> buf, value |-> v, err |-> ""]
        ELSE LET shifted == IF Readings(buf) # 0 THEN Shift(buf) ELSE buf
             IN  IF Len(shifted) = 0
                 THEN [buffer |-> shifted, value |-> v, err |-> "IndexError"]
                 ELSE [buffer |-> [shifted EXCEPT ![1] = value], value |-> v, err |-> ""]

\* Running._register: the buffer after the call, the filtered value, and
\* the exception (IndexError when the buffer has no slot 0).
Register(buf, flt, value) ==
    LET v == BaseResult(flt, value)
    IN  IF v = None THEN [buffer |-> buf, value |-> v, err |-> ""]
        ELSE LET shifted == IF Readings(buf) # 0 THEN Shift(buf) ELSE buf
             IN  IF Len(shifted) = 0
                 THEN [buffer |-> shifted, value |-> v, err |-> "IndexError"]
                 ELSE [buffer |-> [shifted EXCEPT ![1] = v], value |-> v, err |-> ""]

\* Mutant of RunReset: the buffer is rebuilt with the default length.
RunResetDefault(buf) == Nones(BUFFER_LEN_DEF)

\* Running.reset
RunReset(buf) == Nones(Len(buf))

\* [i for i in self._buffer if i is not None]
Occupied(buf) == SelectSeq(buf, LAMBDA x : x # None)

RECURSIVE Sum(_)
Sum(l) == IF l = <<>> THEN Num(0) ELSE RAdd(l[1], Sum(Tail(l)))

result_min(buf) ==
    LET l == Occupied(buf)
    IN  l[CHOOSE i \in DOMAIN l : \A j \in DOMAIN l : ~RLt(l[j], l[i])]

result_max(buf) ==
    LET l == Occupied(buf)
    IN  l[CHOOSE i \in DOMAIN l : \A j \in DOMAIN l : ~RGt(l[j], l[i])]

\* Mutant of result_avg: the sum is divided by the number of slots.
result_avg_slots(buf) ==
    LET l == Occupied(buf)
    IN  IF Len(l) # 0 THEN RDivInt(Sum(l), Len(buf)) ELSE None

result_avg(buf) ==
    LET l == Occupied(buf)
    IN  IF Len(l) # 0 THEN RDivInt(Sum(l), Len(l)) ELSE None

\* Mutant of result_med: the lower middle slot of the occupied part.
result_med_low(buf) ==
    LET l == Readings(buf)
    IN  IF l # 0 THEN buf[((l - 1) \div 2) + 1] ELSE None

result_med(buf) ==
    LET l == Readings(buf)
    IN  IF l # 0 THEN buf[(l \div 2) + 1] ELSE None

\* eval('self.result_' + self._def_stat.lower())
Statistic(stat, buf) ==
    LET name == Lower(stat)
    IN  CASE name = <<"a", "v", "g">> -> result_avg(buf)
          [] name = <<"m", "e", "d">> -> result_med(buf)
          [] name = <<"m", "a", "x">> -> result_max(buf)
          [] name = <<"m", "i", "n">> -> result_min(buf)

\* Mutant of RunResult: without an accepted value the statistic of the
\* buffer as it is is returned.
RunResultOfBuffer(buf, flt, stat, value) ==
    LET r == Register(buf, flt, value)
    IN  IF r.err # "" THEN [buffer |-> r.buffer, ret |-> None, err |-> r.err]
        ELSE [buffer |-> r.buffer,
              ret |-> IF Readings(r.buffer) # 0
                      THEN Statistic(stat, r.buffer) ELSE r.value,
              err |-> ""]

\* Running.result through the _REGISTER decorator: the buffer after the
\* call, the returned value and the exception raised.
RunResult(buf, flt, stat, value) ==
    LET r == Register(buf, flt, value)
    IN  IF r.err # "" THEN [buffer |-> r.buffer, ret |-> None, err |-> r.err]
        ELSE IF r.value = None THEN [buffer |-> r.buffer, ret |-> None, err |-> ""]
        ELSE [buffer |-> r.buffer,
              ret |-> IF Readings(r.buffer) # 0
                      THEN Statistic(stat, r.buffer) ELSE r.value,
              err |-> ""]
-----------------------------------------------------------------------------
(* Inputs *)

Samples == {None, Num(1), Num(2)}

\* Arguments of ValueFilter(value_max, value_min)
FilterBounds == {<<Num(1), None>>, <<<<"str">>, Num(2)>>}

\* Arguments of the filter setter: ValueFilter objects and another object.
FilterArgs == {ValueFilter(b[1], b[2]) : b \in FilterBounds} \cup {<<"obj">>}

FactorArgs == {None, Num(0), <<1, 4>>, Num(1), <<-3, 2>>, <<"str">>, <<"obj">>}

BufLenArgs == {Num(-4), Num(0), Num(1), Num(3), Num(4), Num(5), Num(7), Num(20),
               <<"str">>, <<"obj">>}

StatArgs == {AVG, MED, MAX, MIN, <<"m", "a", "x">>, <<"X", "Y", "Z">>}

-----------------------------------------------------------------------------
(* State machine: one engine object and its attributes (kind, buffer,      *)
(* filter, factor, def_stat), the last call made on it (lastOp) with the   *)
(* value it returned (ret) and the exception it raised (err), and history: *)
(*   nacc       samples accepted since construction or the last reset()    *)
(*   tracked    buffer_len has not changed since construction or reset()   *)
(*   hist       while tracked, the accepted samples, newest first          *)
(*   factor_in  the argument the factor was last configured with           *)
(*   trip       1 when the last call set buffer_len to 7 on a buffer of    *)
(*              length BUFFER_LEN_DEF, 2 when the call right after that    *)
(*              set it back to BUFFER_LEN_DEF, 0 otherwise                 *)

\* StatFilter.filter setter
FilterSet(cur, f) == IF Len(f) = 2 THEN f ELSE cur

Op(name, arg) == [op |-> name, arg |-> arg]

\* Running(buffer_len, def_stat); a constructor that raises makes no object.
InitRunning ==
    \E bl \in BufLenArgs, st \in StatArgs :
        LET r == BufferLenSet(<<>>, bl)
        IN  /\ r.err = ""
            /\ kind = "Running"
            /\ buffer = r.buffer
            /\ def_stat = StatTypeSet(<<>>, st)
            /\ factor = None
            /\ factor_in = None
            /\ lastOp = Op("init", bl)
            /\ tracked = TRUE

\* Exponential(factor)
InitExponential ==
    \E f \in FactorArgs :
        LET r == FactorSet(None, f)
        IN  /\ r.err = ""
            /\ kind = "Exponential"
            /\ buffer = <<None>>
            /\ factor = r.factor
            /\ factor_in = f
            /\ def_stat = <<>>
            /\ lastOp = Op("init", f)
            /\ tracked = FALSE

Init ==
    /\ InitRunning \/ InitExponential
    /\ filter = NoFilter
    /\ ret = None
    /\ err = ""
    /\ hist = <<>>
    /\ nacc = 0
    /\ trip = 0

\* engine.filter = f
SetFilter(f) ==
    /\ filter' = FilterSet(filter, f)
    /\ lastOp' = Op("filter", f)
    /\ trip' = 0
    /\ ret' = None
    /\ err' = ""
    /\ UNCHANGED <<kind, buffer, factor, def_stat, hist, tracked, nacc, factor_in>>

\* The ghost history of a result(value) call: an accepted sample is counted
\* and, while buffer_len has not changed since construction or reset(),
\* recorded newest first.
Accepted(value) == BaseResult(filter, value) # None

Record(value, bound) ==
    /\ Accepted(value) => nacc < bound
    /\ nacc' = IF Accepted(value) THEN nacc + 1 ELSE nacc
    /\ hist' = IF Accepted(value) /\ tracked THEN <<value>> \o hist ELSE hist
    /\ UNCHANGED tracked

\* Running: engine.result(value), with at most bound accepted samples
\* between two reset() calls
RunningResultTo(value, bound) ==
    /\ kind = "Running"
    /\ Record(value, bound)
    /\ LET r == RunResult(buffer, filter, def_stat, value)
       IN  /\ buffer' = r.buffer
           /\ ret' = r.ret
           /\ err' = r.err
    /\ lastOp' = Op("result", value)
    /\ trip' = 0
    /\ UNCHANGED <<kind, filter, factor, def_stat, factor_in>>

RunningResult(value) == RunningResultTo(value, MaxAccepted)

\* Running: engine.reset()
RunningReset ==
    /\ kind = "Running"
    /\ buffer' = RunReset(buffer)
    /\ lastOp' = Op("reset", None)
    /\ trip' = 0
    /\ ret' = None
    /\ err' = ""
    /\ hist' = <<>>
    /\ nacc' = 0
    /\ tracked' = TRUE
    /\ UNCHANGED <<kind, filter, factor, def_stat, factor_in>>

\* Running: engine.buffer_len = value
SetBufferLen(value) ==
    /\ kind = "Running"
    /\ LET r == BufferLenSet(buffer, value)
       IN  /\ buffer' = r.buffer
           /\ err' = r.err
           /\ tracked' = (tracked /\ Len(r.buffer) = Len(buffer))
           /\ hist' = IF tracked /\ Len(r.buffer) = Len(buffer) THEN hist ELSE <<>>
    /\ lastOp' = Op("buffer_len", value)
    /\ trip' = IF Len(buffer) = BUFFER_LEN_DEF /\ value = Num(7) THEN 1
               ELSE IF trip = 1 /\ value = Num(BUFFER_LEN_DEF) THEN 2
               ELSE 0
    /\ ret' = None
    /\ UNCHANGED <<kind, filter, factor, def_stat, nacc, factor_in>>

\* Running: engine.stat_type = arg
SetStatType(arg) ==
    /\ kind = "Running"
    /\ def_stat' = StatTypeSet(def_stat, arg)
    /\ lastOp' = Op("stat_type", arg)
    /\ trip' = 0
    /\ ret' = None
    /\ err' = ""
    /\ UNCHANGED <<kind, buffer, filter, factor, hist, tracked, nacc, factor_in>>

\* Exponential: engine.result(value)
ExponentialResult(value) ==
    /\ kind = "Exponential"
    /\ Record(value, MaxAccepted)
    /\ LET r == ExpResult(buffer, filter, factor, value)
       IN  /\ buffer' = r.buffer
           /\ ret' = r.ret
    /\ err' = ""
    /\ lastOp' = Op("result", value)
    /\ trip' = 0
    /\ UNCHANGED <<kind, filter, factor, def_stat, factor_in>>

\* Exponential: engine.reset()
ExponentialReset ==
    /\ kind = "Exponential"
    /\ buffer' = ExpReset(buffer)
    /\ lastOp' = Op("reset", None)
    /\ trip' = 0
    /\ ret' = None
    /\ err' = ""
    /\ nacc' = 0
    /\ UNCHANGED <<kind, filter, factor, def_stat, hist, tracked, factor_in>>

\* Exponential: engine.factor = value
SetFactor(value) ==
    /\ kind = "Exponential"
    /\ LET r == FactorSet(factor, value)
       IN  /\ factor' = r.factor
           /\ err' = r.err
           /\ factor_in' = IF r.err = "" THEN value ELSE factor_in
    /\ lastOp' = Op("factor", value)
    /\ trip' = 0
    /\ ret' = None
    /\ UNCHANGED <<kind, buffer, filter, def_stat, hist, tracked, nacc>>

Next ==
    \/ \E f \in FilterArgs : SetFilter(f)
    \/ \E v \in Samples : RunningResult(v)
    \/ RunningReset
    \/ \E n \in BufLenArgs : SetBufferLen(n)
    \/ \E s \in StatArgs : SetStatType(s)
    \/ \E v \in Samples : ExponentialResult(v)
    \/ ExponentialReset
    \/ \E x \in FactorArgs : SetFactor(x)

Spec == Init /\ [][Next]_vars

\* The Running engine alone, with its default statistic and a longer
\* history, so that every window up to BUFFER_LEN_DEF fills and overflows.
InitWindow ==
    /\ Init
    /\ kind = "Running"
    /\ def_stat = STAT_TYPE[1]

WindowResult(value) == RunningResultTo(value, MaxWindow)

NextWindow ==
    \/ \E v \in Samples : WindowResult(v)
    \/ RunningReset
    \/ \E n \in BufLenArgs : SetBufferLen(n)

SpecWindow == InitWindow /\ [][NextWindow]_vars

\* The Running engine with each of the statistics AVG, MAX and MIN, fed
\* with samples that differ enough to tell the three apart.
StatSamples == {Num(1), Num(3), Num(5), Num(9), Num(10), Num(20), Num(30)}

StatLens == {Num(3), Num(5)}

StatTypes == {AVG, MAX, MIN}

InitStat ==
    /\ \E bl \in StatLens, st \in StatTypes :
          /\ buffer = BufferLenSet(<<>>, bl).buffer
          /\ def_stat = StatTypeSet(<<>>, st)
          /\ lastOp = Op("init", bl)
    /\ kind = "Running"
    /\ factor = None
    /\ factor_in = None
    /\ tracked = TRUE
    /\ filter = NoFilter
    /\ ret = None
    /\ err = ""
    /\ hist = <<>>
    /\ nacc = 0
    /\ trip = 0

StatResult(value) == RunningResultTo(value, MaxStat)

NextStat ==
    \/ \E v \in StatSamples : StatResult(v)
    \/ RunningReset

SpecStat == InitStat /\ [][NextStat]_vars

\* A ValueFilter object alone: its two setters and filter(value).
BoundArgs == {None, Num(1), Num(2), Num(3), <<"str">>, <<"obj">>}

FilterInputs == {None, Num(0), Num(1), <<3, 2>>, Num(2), Num(3), Num(4)}

\* ValueFilter(value_max, value_min)
InitFilter ==
    /\ \E vmax \in BoundArgs, vmin \in BoundArgs :
          /\ filter = ValueFilter(vmax, vmin)
          /\ lastOp = Op("init", vmax)
    /\ kind = "ValueFilter"
    /\ buffer = <<>>
    /\ def_stat = <<>>
    /\ factor = None
    /\ factor_in = None
    /\ tracked = FALSE
    /\ ret = None
    /\ err = ""
    /\ hist = <<>>
    /\ nacc = 0
    /\ trip = 0

\* flt.value_max = value
SetValueMax(value) ==
    /\ kind = "ValueFilter"
    /\ filter' = <<Bound(value), value_min(filter)>>
    /\ lastOp' = Op("value_max", value)
    /\ ret' = None
    /\ UNCHANGED <<kind, buffer, factor, def_stat, err, hist, tracked, nacc,
                   factor_in, trip>>

\* flt.value_min = value
SetValueMin(value) ==
    /\ kind = "ValueFilter"
    /\ filter' = <<value_max(filter), Bound(value)>>
    /\ lastOp' = Op("value_min", value)
    /\ ret' = None
    /\ UNCHANGED <<kind, buffer, factor, def_stat, err, hist, tracked, nacc,
                   factor_in, trip>>

\* flt.filter(value)
FilterCall(value) ==
    /\ kind = "ValueFilter"
    /\ ret' = FilterValue(filter, value)
    /\ lastOp' = Op("filter", value)
    /\ UNCHANGED <<kind, buffer, filter, factor, def_stat, err, hist, tracked,
                   nacc, factor_in, trip>>

NextFilter ==
    \/ \E x \in BoundArgs : SetValueMax(x)
    \/ \E x \in BoundArgs : SetValueMin(x)
    \/ \E v \in FilterInputs : FilterCall(v)

SpecFilter == InitFilter /\ [][NextFilter]_vars

\* The Running engine with the statistic MED, fed with the samples
\* 1, 2, 3, ... so that a value tells when it was accepted, and resized
\* in between.
MedianLens == {Num(3), Num(5), Num(7)}

InitMedian ==
    /\ \E bl \in MedianLens :
          /\ buffer = BufferLenSet(<<>>, bl).buffer
          /\ lastOp = Op("init", bl)
    /\ def_stat = StatTypeSet(<<>>, MED)
    /\ kind = "Running"
    /\ factor = None
    /\ factor_in = None
    /\ tracked = TRUE
    /\ filter = NoFilter
    /\ ret = None
    /\ err = ""
    /\ hist = <<>>
    /\ nacc = 0
    /\ trip = 0

MedianResult == RunningResultTo(Num(nacc + 1), MaxMedian)

NextMedian ==
    \/ MedianResult
    \/ RunningReset
    \/ \E n \in MedianLens : SetBufferLen(n)

SpecMedian == InitMedian /\ [][NextMedian]_vars

\* The Exponential engine alone.
InitExp ==
    /\ Init
    /\ kind = "Exponential"

NextExp ==
    \/ \E f \in FilterArgs : SetFilter(f)
    \/ \E v \in Samples : ExponentialResult(v)
    \/ ExponentialReset
    \/ \E x \in FactorArgs : SetFactor(x)

SpecExp == InitExp /\ [][NextExp]_vars

-----------------------------------------------------------------------------
(* Properties *)

\* The sample v lies above value_max or below value_min of the engine's
\* filter.
Rejected(v) ==
    /\ v # None
    /\ filter # NoFilter
    /\ \/ value_max(filter) # None /\ RLt(value_max(filter), v)
       \/ value_min(filter) # None /\ RLt(v, value_min(filter))

Min2(a, b) == IF a < b THEN a ELSE b

IsRunningResult == kind = "Running" /\ lastOp.op = "result"

C2_NoneOnlyWhenEmpty ==
    (IsRunningResult /\ err = "") =>
        /\ ret = None <=> Readings(buffer) = 0
        /\ Readings(buffer) > 0 => ret = Statistic(def_stat, buffer)

\* C2 amended: a Running.result(value) call that returns, returns None
\* exactly when value is None or rejected by the range filter, whatever the
\* buffer holds; for an accepted value it returns the configured statistic
\* of the buffer, which is not None.
C2_NoneIffNotAccepted ==
    (IsRunningResult /\ err = "") =>
        IF lastOp.arg = None \/ Rejected(lastOp.arg)
        THEN ret = None
        ELSE ret # None /\ ret = Statistic(def_stat, buffer)

\* result(None) and a rejected sample on a buffer with readings.
C2_Witness ==
    /\ IsRunningResult /\ err = ""
    /\ Rejected(lastOp.arg)
    /\ Readings(buffer) > 1
    /\ ret = None

\* C3: a result() call of either engine whose sample the range filter
\* rejects leaves every buffer slot, and so readings(), as it was.
C3_RejectedLeavesBuffer ==
    [][(lastOp'.op = "result" /\ Rejected(lastOp'.arg)) => buffer' = buffer]_vars

\* A rejected sample on a Running buffer that holds readings.
C3_Witness ==
    /\ IsRunningResult
    /\ Rejected(lastOp.arg)
    /\ Readings(buffer) > 1

\* C4 as claimed: buffer_len of a Running engine is always odd and within
\* 1..15.
C4_OddInRange ==
    kind = "Running" => Len(buffer) % 2 = 1 /\ Len(buffer) \in 1..15

\* The last call assigned the integer lastOp.arg[1] to buffer_len, in the
\* constructor or through the setter, and returned.
AssignedLen ==
    /\ kind = "Running"
    /\ lastOp.op \in {"init", "buffer_len"}
    /\ IsNum(lastOp.arg) /\ lastOp.arg[2] = 1
    /\ err = ""

\* C5 as claimed: an integer n assigned to buffer_len gives (n OR 1)
\* clamped into 1..15.
C5_OddClamped ==
    AssignedLen =>
        LET n == Or1(Abs(lastOp.arg[1]))
        IN  Len(buffer) = IF n > 15 THEN 15 ELSE n

\* C5 amended: an integer n assigned to buffer_len gives |n| OR 1 with no
\* upper limit, and the default 5 for n = 0, whenever the assignment
\* returns: 4 gives 5, 20 gives 21 and 0 gives 5.
C5_OddUnclamped ==
    AssignedLen =>
        LET n == lastOp.arg[1]
        IN  /\ Len(buffer) = IF n = 0 THEN 5
                             ELSE IF Abs(n) % 2 = 0 THEN Abs(n) + 1 ELSE Abs(n)
            /\ n = 4 => Len(buffer) = 5
            /\ n = 20 => Len(buffer) = 21
            /\ n = 0 => Len(buffer) = 5

\* The setter has been given 20 on an engine that holds readings.
C5_Witness ==
    /\ AssignedLen
    /\ lastOp = Op("buffer_len", Num(20))
    /\ Len(buffer) = 21
    /\ Readings(buffer) > 0

\* The argument names a statistic type, in any case of letters.
KnownStat(arg) == \E i \in DOMAIN STAT_TYPE : STAT_TYPE[i] = Upper(Str(arg))

\* C6 as claimed: the stat_type setter given an unknown type keeps the
\* statistic type configured before.
C6_UnknownKeeps ==
    [][(lastOp'.op = "stat_type" /\ ~KnownStat(lastOp'.arg)) => def_stat' = def_stat]_vars

\* C6 amended: the stat_type setter sets the type named by its argument,
\* and for any other argument the default type AVG, whatever was
\* configured before.
C6_UnknownSetsDefault ==
    (kind = "Running" /\ lastOp.op = "stat_type") =>
        def_stat = IF KnownStat(lastOp.arg) THEN Upper(Str(lastOp.arg)) ELSE AVG

\* The setter has been given an unknown type.
C6_Witness ==
    /\ kind = "Running"
    /\ lastOp = Op("stat_type", <<"X", "Y", "Z">>)
    /\ def_stat = AVG
    /\ Readings(buffer) > 0

\* C7: buffer_len set to 7 on a Running engine of length 5 and then
\* straight back to 5 raises nothing and ends with buffer_len 5 and at most
\* 5 readings.
C7_RoundTrip ==
    /\ trip = 1 => err = "" /\ Len(buffer) = 7
    /\ trip = 2 => err = "" /\ Len(buffer) = 5 /\ Readings(buffer) <= 5

\* The round trip made on a full window of five.
C7_Witness ==
    /\ trip = 2
    /\ nacc >= 5
    /\ Readings(buffer) = 3

\* C8: assigning an odd length n above the current one to buffer_len
\* appends n - old empty slots and keeps slots 0..old-1, readings() and
\* stat_type as they were.
C8_GrowAppends ==
    [][(/\ kind = "Running"
        /\ lastOp'.op = "buffer_len"
        /\ IsNum(lastOp'.arg) /\ lastOp'.arg[2] = 1
        /\ lastOp'.arg[1] % 2 = 1
        /\ lastOp'.arg[1] > Len(buffer))
       => /\ err' = ""
          /\ Len(buffer') = lastOp'.arg[1]
          /\ \A i \in 1..Len(buffer') :
                buffer'[i] = IF i <= Len(buffer) THEN buffer[i] ELSE None
          /\ Readings(buffer') = Readings(buffer)
          /\ def_stat' = def_stat]_vars

\* A window of five holding three readings has grown to seven.
C8_Witness ==
    /\ trip = 1
    /\ Len(buffer) = 7
    /\ Readings(buffer) = 3
    /\ def_stat = MAX

\* The last call of result() stored an accepted sample.
AcceptedResult == lastOp.op = "result" /\ lastOp.arg # None /\ ~Rejected(lastOp.arg)

\* C9 as claimed: an Exponential engine whose factor was configured as 0.0
\* holds its first accepted value: no later accepted sample changes it.
C9_ZeroFactorHolds ==
    [][(/\ kind = "Exponential"
        /\ factor_in = Num(0)
        /\ buffer[1] # None
        /\ AcceptedResult')
       => buffer'[1] = buffer[1]]_vars

\* C10 as claimed: a number x assigned to the Exponential factor is stored
\* as min(|x|, 1.0), and None gives the default 0.5.
C10_FactorClamped ==
    (kind = "Exponential" /\ lastOp.op \in {"init", "factor"} /\ err = "") =>
        /\ IsNum(lastOp.arg) =>
              factor = IF RLt(Num(1), RAbs(lastOp.arg)) THEN Num(1) ELSE RAbs(lastOp.arg)
        /\ lastOp.arg = None => factor = <<1, 2>>


\* C11: Exponential.result(None) and Exponential.result(v) with a rejected v
\* return the stored value (None while the engine is empty) and leave the
\* stored value as it was.
C11_NoSampleReturnsStored ==
    [][(/\ kind = "Exponential"
        /\ lastOp'.op = "result"
        /\ (lastOp'.arg = None \/ Rejected(lastOp'.arg)))
       => /\ buffer' = buffer
          /\ ret' = buffer[1]]_vars

\* A rejected sample on a primed engine whose value is a smoothed one.
C11_Witness ==
    /\ kind = "Exponential"
    /\ lastOp.op = "result"
    /\ Rejected(lastOp.arg)
    /\ buffer[1] # None
    /\ buffer[1][2] > 1
    /\ ret = buffer[1]

\* C18: the first sample an Exponential engine accepts after construction
\* or reset() is stored and returned as it is; every later accepted sample
\* v stores and returns prev + factor * (v - prev); only reset() empties
\* the engine.
C18_ExponentialSteps ==
    [][/\ (kind = "Exponential" /\ AcceptedResult') =>
             LET v == lastOp'.arg
                 prev == buffer[1]
                 d == <<v[1] * prev[2] - prev[1] * v[2], v[2] * prev[2]>>
                 n == prev[1] * d[2] * factor[2] + factor[1] * d[1] * prev[2]
                 m == prev[2] * d[2] * factor[2]
             IN  /\ ret' = buffer'[1]
                 /\ IF prev = None
                    THEN buffer'[1] = v
                    ELSE /\ buffer'[1] # None
                         /\ buffer'[1][1] * m = n * buffer'[1][2]
       /\ (kind = "Exponential" /\ buffer[1] # None /\ lastOp'.op # "reset") =>
             buffer'[1] # None]_vars

\* A third accepted sample smoothed with the factor 1/4.
C18_Witness ==
    /\ kind = "Exponential"
    /\ AcceptedResult
    /\ nacc = 3
    /\ factor = <<1, 4>>
    /\ buffer[1][2] = 16


\* C12: right after reset() either engine has no reading and result(None)
\* returns None; the Exponential engine is empty again, so the next sample
\* it accepts is stored and returned as it is.
C12_ResetEmpties ==
    [][/\ lastOp'.op = "reset" => Readings(buffer') = 0
       /\ (lastOp.op = "reset" /\ lastOp' = Op("result", None)) =>
             ret' = None /\ err' = ""
       /\ (kind = "Exponential" /\ lastOp.op = "reset" /\ AcceptedResult') =>
             buffer'[1] = lastOp'.arg /\ ret' = lastOp'.arg]_vars

\* reset() of an Exponential engine with a filter and the factor 1/4.
C12_Witness ==
    /\ kind = "Exponential"
    /\ lastOp.op = "reset"
    /\ factor = <<1, 4>>
    /\ filter # NoFilter
    /\ Readings(buffer) = 0

\* C13: reset() leaves the filter and its bounds, the Exponential factor,
\* the Running buffer length and the Running stat_type as they were.
C13_ResetKeepsConfiguration ==
    [][lastOp'.op = "reset" =>
          /\ filter' = filter
          /\ factor' = factor
          /\ Len(buffer') = Len(buffer)
          /\ def_stat' = def_stat]_vars

\* reset() of a Running engine configured away from every default.
C13_Witness ==
    /\ kind = "Running"
    /\ lastOp.op = "reset"
    /\ Len(buffer) = 7
    /\ def_stat = MAX
    /\ filter # NoFilter
    /\ value_max(filter) = Num(1)

\* C20: the occupied slots of a Running buffer are its first readings()
\* slots, and every slot from readings() on is empty.
C20_OccupiedPrefix ==
    kind = "Running" =>
        /\ Readings(buffer) \in 0..Len(buffer)
        /\ \A i \in 1..Len(buffer) : (buffer[i] # None) <=> (i <= Readings(buffer))

\* A buffer grown, filled and shrunk, with readings and empty slots.
C20_Witness ==
    /\ kind = "Running"
    /\ lastOp.op = "buffer_len"
    /\ err = ""
    /\ ~tracked
    /\ Readings(buffer) = 2
    /\ Len(buffer) = 3
    /\ nacc = 4


\* The samples of the current window, newest first, taken from the history
\* of accepted samples and not from the buffer.
WindowOfHist == SubSeq(hist, 1, Min2(Len(hist), Len(buffer)))

RECURSIVE IntSum(_)
IntSum(s) == IF s = <<>> THEN 0 ELSE s[1][1] + IntSum(Tail(s))

NumLe(a, b) == a[1] * b[2] <= b[1] * a[2]

\* C15: filter(v) returns a value v other than None unchanged iff
\* (value_min is unset or v >= value_min) and (value_max is unset or
\* v <= value_max), and None otherwise; filter(None) is None; with
\* value_max < value_min every value is rejected.
C15_RangeFilter ==
    (kind = "ValueFilter" /\ lastOp.op = "filter") =>
        LET v == lastOp.arg
            mx == value_max(filter)
            mn == value_min(filter)
            inside == /\ mn = None \/ NumLe(mn, v)
                      /\ mx = None \/ NumLe(v, mx)
        IN  /\ v = None => ret = None
            /\ v # None => /\ inside => ret = v
                           /\ ~inside => ret = None
            /\ (v # None /\ mx # None /\ mn # None /\ ~NumLe(mn, mx)) =>
                  ret = None

\* A value between an inverted pair of bounds is rejected.
C15_Witness ==
    /\ kind = "ValueFilter"
    /\ lastOp = Op("filter", Num(2))
    /\ value_max(filter) = Num(1)
    /\ value_min(filter) = Num(3)
    /\ ret = None


\* C16 as claimed: a value that int() cannot convert, given to the
\* constructor or assigned to buffer_len, raises nothing and leaves the
\* Running engine with buffer_len 5.
C16_NonIntegerGivesDefault ==
    (/\ kind = "Running"
     /\ lastOp.op \in {"init", "buffer_len"}
     /\ lastOp.arg \in {<<"str">>, <<"obj">>}) =>
        err = "" /\ Len(buffer) = BUFFER_LEN_DEF

\* The odd buffer lengths the documentation allows.
OddLens == {n \in 1..15 : n % 2 = 1}

\* C17 as claimed: assigning a smaller valid odd length to buffer_len
\* returns without raising and leaves exactly that many slots.
C17_ShrinkCompletes ==
    [][(/\ kind = "Running"
        /\ lastOp'.op = "buffer_len"
        /\ IsNum(lastOp'.arg) /\ lastOp'.arg[2] = 1
        /\ lastOp'.arg[1] \in OddLens
        /\ Len(buffer) \in OddLens
        /\ Len(buffer) > lastOp'.arg[1])
       => /\ err' = ""
          /\ Len(buffer') = lastOp'.arg[1]]_vars


\* result(v) with the statistic MED accepted v and returned.
MedianReturned ==
    /\ kind = "Running"
    /\ def_stat = MED
    /\ AcceptedResult
    /\ err = ""

====
